---- MODULE Spec2Model ----
(***************************************************************************)
(* Model of the Excel ETL run of excel_mapper_app.py: the key normalizer,  *)
(* the value coercer, the merged-cell-aware writer and the "Run ETL"       *)
(* handler (source load loop, mapping loop, summary and save).             *)
(*                                                                         *)
(* Text is a sequence of one-character strings (the element "RUPEE" stands *)
(* for the currency glyph U+20B9).  A number is an integer count of        *)
(* 1/Scale units, so 1234.5 is 123450; the inputs are dyadic, so the       *)
(* float arithmetic of the program is exact on them.  A cell value is a    *)
(* record [t, n, s]: None, a number or a text.                             *)
(***************************************************************************)
EXTENDS Integers, Sequences, FiniteSets

\* ------------------------------------------------------------------ values

Scale == 10 * 10

None == [t |-> "none", n |-> 0, s |-> <<>>]
Num(x) == [t |-> "num", n |-> x * Scale, s |-> <<>>]
Frac(x) == [t |-> "num", n |-> x, s |-> <<>>]
Str(x) == [t |-> "str", n |-> 0, s |-> x]

\* Python truthiness of a cell value: None, 0 and "" are falsy.
Truthy(v) ==
    CASE v.t = "none" -> FALSE
      [] v.t = "num" -> v.n # 0
      [] OTHER -> Len(v.s) > 0

Digits == <<"0", "1", "2", "3", "4", "5", "6", "7", "8", "9">>
UpperCase == <<"A", "B", "C", "D", "E", "F", "G", "H", "I", "J", "K", "L", "M",
               "N", "O", "P", "Q", "R", "S", "T", "U", "V", "W", "X", "Y", "Z">>
LowerCase == <<"a", "b", "c", "d", "e", "f", "g", "h", "i", "j", "k", "l", "m",
               "n", "o", "p", "q", "r", "s", "t", "u", "v", "w", "x", "y", "z">>

IsDigit(c) == \E i \in 1..Len(Digits) : Digits[i] = c
DigitVal(c) == (CHOOSE i \in 1..Len(Digits) : Digits[i] = c) - 1
IsLowerAZ(c) == \E i \in 1..Len(LowerCase) : LowerCase[i] = c

\* str.lower() on one character.
Lower(c) ==
    IF \E i \in 1..Len(UpperCase) : UpperCase[i] = c
    THEN LowerCase[CHOOSE i \in 1..Len(UpperCase) : UpperCase[i] = c]
    ELSE c

RECURSIVE NatToStr(_)
NatToStr(k) ==
    IF k < 10 THEN <<Digits[k + 1]>>
    ELSE Append(NatToStr(k \div 10), Digits[(k % 10) + 1])

\* str(value) of a cell value that is not None: a text is itself, a whole
\* number prints its decimal digits.
StrOf(v) ==
    IF v.t = "str" THEN v.s
    ELSE IF v.n < 0 THEN <<"-">> \o NatToStr((0 - v.n) \div Scale)
    ELSE NatToStr(v.n \div Scale)

\* ----------------------------------------------------------- normalize

RECURSIVE StripNonLetters(_)
StripNonLetters(text) ==
    IF text = <<>> THEN <<>>
    ELSE IF IsLowerAZ(Head(text))
         THEN <<Head(text)>> \o StripNonLetters(Tail(text))
         ELSE StripNonLetters(Tail(text))

LowerText(text) == [i \in 1..Len(text) |-> Lower(text[i])]

normalize(v) ==
    IF v.t = "none" THEN <<>>
    ELSE StripNonLetters(LowerText(StrOf(v)))

\* ----------------------------------------------------------- to_number

RemoveChar(text, c) == SelectSeq(text, LAMBDA x : x # c)

RECURSIVE LStrip(_)
LStrip(text) ==
    IF text # <<>> /\ Head(text) = " " THEN LStrip(Tail(text)) ELSE text

RECURSIVE RStrip(_)
RStrip(text) ==
    IF text # <<>> /\ text[Len(text)] = " "
    THEN RStrip(SubSeq(text, 1, Len(text) - 1))
    ELSE text

Strip(text) == LStrip(RStrip(text))

\* The end of the run of digits that starts at position i (i - 1 if none).
RECURSIVE DigitsEnd(_, _)
DigitsEnd(text, i) ==
    IF i <= Len(text) /\ IsDigit(text[i]) THEN DigitsEnd(text, i + 1) ELSE i - 1

RECURSIVE DigitsValue(_)
DigitsValue(ds) ==
    IF ds = <<>> THEN 0
    ELSE DigitsValue(SubSeq(ds, 1, Len(ds) - 1)) * 10 + DigitVal(ds[Len(ds)])

\* The value of the fraction digits ds in 1/Scale units (two digits kept).
FracValue(ds) ==
    (IF Len(ds) >= 1 THEN DigitVal(ds[1]) * 10 ELSE 0)
    + (IF Len(ds) >= 2 THEN DigitVal(ds[2]) ELSE 0)

\* Whether the pattern -?\d+(\.\d+)? matches at position i.
MatchesAt(text, i) ==
    \/ IsDigit(text[i])
    \/ text[i] = "-" /\ i + 1 <= Len(text) /\ IsDigit(text[i + 1])

\* float(re.search(r"-?\d+(\.\d+)?", text).group()), 0 without a match.
SearchNumber(text) ==
    IF \A i \in 1..Len(text) : ~MatchesAt(text, i) THEN 0
    ELSE LET i == CHOOSE j \in 1..Len(text) :
                      MatchesAt(text, j) /\ \A k \in 1..(j - 1) : ~MatchesAt(text, k)
             neg == text[i] = "-"
             d0 == IF neg THEN i + 1 ELSE i
             d1 == DigitsEnd(text, d0)
             hasFrac == /\ d1 + 2 <= Len(text)
                        /\ text[d1 + 1] = "."
                        /\ IsDigit(text[d1 + 2])
             f1 == IF hasFrac THEN DigitsEnd(text, d1 + 2) ELSE d1
             whole == DigitsValue(SubSeq(text, d0, d1)) * Scale
             frac == IF hasFrac THEN FracValue(SubSeq(text, d1 + 2, f1)) ELSE 0
         IN  IF neg THEN 0 - (whole + frac) ELSE whole + frac

to_number(v) ==
    IF v.t = "none" THEN 0
    ELSE IF v.t = "num" THEN v.n
    ELSE SearchNumber(Strip(RemoveChar(RemoveChar(v.s, ","), "RUPEE")))

\* Rounding with ties away from the even neighbour (half up).
round_half_up(p, d) == (2 * p + d) \div (2 * d)

\* Python's round(x): to the nearest integer, ties to the even one.  x is
\* p / d with d > 0.
round(p, d) ==
    LET q == p \div d
        r == p - q * d
    IN  IF 2 * r < d THEN q
        ELSE IF 2 * r > d THEN q + 1
        ELSE IF q % 2 = 0 THEN q ELSE q + 1

\* int(value) as the mapping loop applies it to column B: a number is
\* truncated toward zero, a text must be an optionally signed run of digits
\* (surrounding blanks allowed) or int() raises ValueError.
IntOfText(text) ==
    LET t == Strip(text)
        signed == t # <<>> /\ (Head(t) = "-" \/ Head(t) = "+")
        ds == IF signed THEN Tail(t) ELSE t
        ok == ds # <<>> /\ \A i \in 1..Len(ds) : IsDigit(ds[i])
    IN  [ok |-> ok,
         n |-> IF ~ok THEN 0
               ELSE IF signed /\ Head(t) = "-" THEN 0 - DigitsValue(ds)
               ELSE DigitsValue(ds)]

int(v) ==
    IF v.t = "str" THEN IntOfText(v.s)
    ELSE [ok |-> TRUE,
          n |-> IF v.n >= 0 THEN v.n \div Scale ELSE 0 - ((0 - v.n) \div Scale)]

\* --------------------------------------------------------- target sheet

ColG == 7
ColJ == 10
MaxTargetRow == 5
FirstCol == ColG - 1

Coords == (1..MaxTargetRow) \X (FirstCol..ColJ)

\* A merged range min_col,min_row : max_col,max_row.
Range(r1, c1, r2, c2) == [min_row |-> r1, min_col |-> c1, max_row |-> r2, max_col |-> c2]

\* "cell_address in merged_range" for the address <<row, col>>.
InRange(addr, rng) ==
    /\ rng.min_row <= addr[1] /\ addr[1] <= rng.max_row
    /\ rng.min_col <= addr[2] /\ addr[2] <= rng.max_col

Anchor(rng) == <<rng.min_row, rng.min_col>>

\* An address the sheet accepts: f"G{n}" names a cell only for n >= 1.
ValidAddress(addr) == addr[1] >= 1

\* The cell whose value write_to_cell assigns for cell_address: the anchor of
\* the first merged range (in iteration order) that contains the address,
\* the addressed cell itself when none does.
AssignedCell(merged, addr) ==
    IF \E i \in 1..Len(merged) : InRange(addr, merged[i])
    THEN Anchor(merged[CHOOSE i \in 1..Len(merged) :
                           /\ InRange(addr, merged[i])
                           /\ \A j \in 1..(i - 1) : ~InRange(addr, merged[j])])
    ELSE addr

\* A writer that ignores the merged ranges.
write_to_cell_direct(ws, addr, value) ==
    [ws EXCEPT !.cells = [@ EXCEPT ![addr] = value],
               !.assigned = @ \cup {addr}]

\* A writer that leaves a cell that already holds a value.
write_to_cell_keep_first(ws, addr, value) ==
    LET c == AssignedCell(ws.merged, addr)
    IN  IF ws.cells[c] # None THEN ws
        ELSE [ws EXCEPT !.cells = [@ EXCEPT ![c] = value],
                        !.assigned = @ \cup {c}]

\* ws is the worksheet: its cell values, its merged ranges in iteration
\* order, and the set of cells whose value has been assigned so far.
write_to_cell(ws, addr, value) ==
    LET c == AssignedCell(ws.merged, addr)
    IN  [ws EXCEPT !.cells = [@ EXCEPT ![c] = value],
                   !.assigned = @ \cup {c}]

\* ------------------------------------------------------------- matching

\* Containment that denies the empty text.
IsSubstringNonEmpty(a, b) ==
    /\ a # <<>>
    /\ \E i \in 0..(Len(b) - Len(a)) : SubSeq(b, i + 1, i + Len(a)) = a

\* Python's "a in b" on text.
IsSubstring(a, b) ==
    \E i \in 0..(Len(b) - Len(a)) : SubSeq(b, i + 1, i + Len(a)) = a

\* Containment tested in one direction only.
CandidateOneWay(src, norm_map_key) == IsSubstring(norm_map_key, src.norm_key)

Candidate(src, norm_map_key) ==
    IsSubstring(norm_map_key, src.norm_key) \/ IsSubstring(src.norm_key, norm_map_key)

\* A search that keeps the last candidate instead of the first.
FindMatchLast(data, norm_map_key) ==
    IF \E i \in 1..Len(data) : Candidate(data[i], norm_map_key)
    THEN CHOOSE i \in 1..Len(data) :
             /\ Candidate(data[i], norm_map_key)
             /\ \A j \in (i + 1)..Len(data) : ~Candidate(data[j], norm_map_key)
    ELSE 0

\* next((src for src in source_data if ...), None): the index of the first
\* candidate, 0 for None.
FindMatch(data, norm_map_key) ==
    IF \E i \in 1..Len(data) : Candidate(data[i], norm_map_key)
    THEN CHOOSE i \in 1..Len(data) :
             /\ Candidate(data[i], norm_map_key)
             /\ \A j \in 1..(i - 1) : ~Candidate(data[j], norm_map_key)
    ELSE 0

SourceRecord(key, curr, prev) ==
    [raw_key |-> StrOf(key),
     norm_key |-> normalize(key),
     current |-> to_number(curr),
     previous |-> to_number(prev)]

\* --------------------------------------------------------------- inputs

MaxSourceRows == 2
MaxMappingRows == 2
MaxWriteRows == 3

\* Source rows (columns B, D, F).
SrcAcme == [B |-> Str(<<"A", "c", "m", "e", " ", "C", "o", "r", "p">>), D |-> Num(100), F |-> Num(200)]
SrcAcmeShort == [B |-> Str(<<"a", "c", "m", "e">>), D |-> Num(5), F |-> Str(<<"RUPEE", "1", ",", "2", "3", "4", ".", "5", "0">>)]
SrcZeroKey == [B |-> Num(0), D |-> Num(1), F |-> Num(1)]
SrcNoKey == [B |-> None, D |-> Num(1), F |-> None]
SrcDigits == [B |-> Str(<<"1", "2", "-", "3">>), D |-> Str(<<"n", "o", " ", "d", "i", "g", "i", "t", "s", " ", "h", "e", "r", "e">>), F |-> Str(<<"-", "2", ".", "5">>)]

BasicSourceRows == {SrcAcme, SrcAcmeShort}
SourceRows == BasicSourceRows \cup {SrcZeroKey, SrcNoKey, SrcDigits}

\* Mapping rows (columns A, B).
MapAcme == [A |-> Str(<<"A", "C", "M", "E", " ", "C", "O", "R", "P", ".">>), B |-> Num(5)]
MapGlobex == [A |-> Str(<<"G", "l", "o", "b", "e", "x">>), B |-> Num(4)]
MapPunct == [A |-> Str(<<"#", "4", "2">>), B |-> Frac(5 * Scale + 50)]
MapAcmeText == [A |-> Str(<<"A", "c", "m", "e">>), B |-> Str(<<"4">>)]
MapLtd == [A |-> Str(<<"A", "c", "m", "e", " ", "L", "t", "d">>), B |-> Num(4)]
MapLtdUp == [A |-> Str(<<"A", "c", "m", "e", " ", "L", "t", "d">>), B |-> Num(3)]
MapNoKey == [A |-> None, B |-> Num(5)]
MapNoRow == [A |-> Str(<<"A", "c", "m", "e">>), B |-> None]
MapZeroRow == [A |-> Str(<<"G", "l", "o", "b", "e", "x">>), B |-> Num(0)]
MapNumKey == [A |-> Num(7), B |-> Num(5)]
MapBadRow == [A |-> Str(<<"A", "c", "m", "e">>), B |-> Str(<<"a", "b", "c">>)]

BasicMappingRows == {MapAcme, MapGlobex, MapPunct}
MappingRows == BasicMappingRows \cup
               {MapAcmeText, MapNoKey, MapNoRow, MapZeroRow, MapNumKey, MapBadRow}
WriteRows == {MapAcme, MapAcmeText, MapLtd, MapLtdUp}

\* The merged ranges of the target sheet, G3:G4 and I4:J4: on row 4 both
\* writes are redirected, on row 3 the G write lands on an anchor, row 5
\* is not merged.
MergedRanges == <<Range(3, ColG, 4, ColG), Range(4, ColJ - 1, 4, ColJ)>>

\* The scale factor, in 1/Scale units: 2.0 and 0.5.
Factors == {2 * Scale, Scale \div 2}

SeqsUpTo(S, n) == UNION {[1..k -> S] : k \in 0..n}
RowsOf(ws) == {ws[i] : i \in 1..Len(ws)}

\* ---------------------------------------------------------------- state

VARIABLES
    source_ws,     \* the source sheet: its rows 2..max_row, columns B, D, F
    mapping_ws,    \* the mapping sheet "Sheet1": rows 2..max_row, columns A, B
    target_ws,     \* the target sheet (cells, merged, assigned)
    factor,        \* the multiplication factor, in 1/Scale units
    source_data,   \* the list of source records
    filled,        \* the count of filled rows
    missing_keys,  \* the map keys without a source record
    match,         \* the position in source_data of the record selected
                   \* for the last row matched against it, 0 for None
    row,           \* the loop variable of the running loop
    output,        \* the cells of the saved workbook, None before the save
    pc             \* "load", "map", "done" or "error"

vars == <<source_ws, mapping_ws, target_ws, factor, source_data, filled,
          missing_keys, match, row, output, pc>>

\* ws.max_row of a sheet whose data rows (2..) are the sequence ws.
max_row(ws) == Len(ws) + 1

\* The data row at sheet row r.
RowAt(ws, r) == ws[r - 1]

\* The state at the start of the run, the workbooks loaded.
Start ==
    /\ target_ws = [cells |-> [c \in Coords |-> None],
                    merged |-> MergedRanges,
                    assigned |-> {}]
    /\ factor \in Factors
    /\ source_data = <<>>
    /\ filled = 0
    /\ missing_keys = <<>>
    /\ match = 0
    /\ row = 2
    /\ output = None
    /\ pc = "load"

\* The workbooks of Spec: at most one of the two sheets goes beyond the
\* basic rows.
Init ==
    /\ source_ws \in SeqsUpTo(SourceRows, MaxSourceRows)
    /\ mapping_ws \in SeqsUpTo(MappingRows, MaxMappingRows)
    /\ RowsOf(source_ws) \subseteq BasicSourceRows
         \/ RowsOf(mapping_ws) \subseteq BasicMappingRows
    /\ Start

\* The workbooks of SpecWrites: longer mapping sheets whose rows all name
\* a target row.
InitWrites ==
    /\ source_ws \in SeqsUpTo(BasicSourceRows, MaxSourceRows)
    /\ mapping_ws \in SeqsUpTo(WriteRows, MaxWriteRows)
    /\ Start

\* A test for None in place of the truth test.
IncludedNotNone(key) == key.t # "none"

\* "if key:" of the source load loop.
Included(key) == Truthy(key)

\* One iteration of the source load loop.
LoadSourceRow ==
    /\ pc = "load"
    /\ row <= max_row(source_ws)
    /\ LET key == RowAt(source_ws, row).B
           curr == RowAt(source_ws, row).D
           prev == RowAt(source_ws, row).F
       IN  source_data' = IF Included(key)
                          THEN Append(source_data, SourceRecord(key, curr, prev))
                          ELSE source_data
    /\ row' = row + 1
    /\ UNCHANGED <<source_ws, mapping_ws, target_ws, factor, filled,
                   missing_keys, match, output, pc>>

\* The source loop is over: the counters of the mapping loop are set.
StartMapping ==
    /\ pc = "load"
    /\ row > max_row(source_ws)
    /\ filled' = 0
    /\ missing_keys' = <<>>
    /\ row' = 2
    /\ pc' = "map"
    /\ UNCHANGED <<source_ws, mapping_ws, target_ws, factor, source_data,
                   match, output>>

\* "if not map_key or not target_row: continue".
Skipped(map_key, target_row) == ~Truthy(map_key) \/ ~Truthy(target_row)

\* Recording the normalized key in place of the original.
MissingEntryNormalized(map_key) == Str(normalize(map_key))

\* What missing_keys.append(map_key) appends.
MissingEntry(map_key) == map_key

\* f"G{n}" and f"J{n}" as <<row, column>>.
current_cell(n) == <<n, ColG>>
previous_cell_I(n) == <<n, ColJ - 1>>
previous_cell(n) == <<n, ColJ>>

\* round(match["current"] * factor) and round(match["previous"] * factor).
curr_value(src, f) == round(src.current * f, Scale * Scale)
prev_value(src, f) == round(src.previous * f, Scale * Scale)

\* One iteration of the mapping loop; an exception raised in it ends the run
\* in the handler of line 139.
ProcessMappingRow ==
    /\ pc = "map"
    /\ row <= max_row(mapping_ws)
    /\ LET map_key == RowAt(mapping_ws, row).A
           target_row == RowAt(mapping_ws, row).B
           norm_map_key == normalize(map_key)
           m == FindMatch(source_data, norm_map_key)
           n == int(target_row)
           ws1 == write_to_cell(target_ws, current_cell(n.n),
                                Num(curr_value(source_data[m], factor)))
           ws2 == write_to_cell(ws1, previous_cell(n.n),
                                Num(prev_value(source_data[m], factor)))
       IN  IF Skipped(map_key, target_row)
           THEN /\ row' = row + 1
                /\ UNCHANGED <<target_ws, filled, missing_keys, match, pc>>
           ELSE IF m = 0
           THEN /\ match' = 0
                /\ missing_keys' = Append(missing_keys, MissingEntry(map_key))
                /\ row' = row + 1
                /\ UNCHANGED <<target_ws, filled, pc>>
           ELSE IF ~n.ok \/ ~ValidAddress(current_cell(n.n))
           THEN /\ match' = m
                /\ pc' = "error"
                /\ UNCHANGED <<target_ws, filled, missing_keys, row>>
           ELSE /\ match' = m
                /\ target_ws' = ws2
                /\ filled' = filled + 1
                /\ row' = row + 1
                /\ UNCHANGED <<missing_keys, pc>>
    /\ UNCHANGED <<source_ws, mapping_ws, factor, source_data, output>>

\* The summary and the save: ', '.join(missing_keys) raises TypeError on a
\* key that is not text.
Summary ==
    /\ pc = "map"
    /\ row > max_row(mapping_ws)
    /\ IF \A i \in 1..Len(missing_keys) : missing_keys[i].t = "str"
       THEN /\ output' = target_ws.cells
            /\ pc' = "done"
       ELSE /\ pc' = "error"
            /\ UNCHANGED output
    /\ UNCHANGED <<source_ws, mapping_ws, target_ws, factor, source_data,
                   filled, missing_keys, match, row>>

Next == LoadSourceRow \/ StartMapping \/ ProcessMappingRow \/ Summary

Spec == Init /\ [][Next]_vars

SpecWrites == InitWrites /\ [][Next]_vars

\* =============================================================== claims
\* Vocabulary of the properties, stated on the documents and the counters
\* without the operators of the run (FindMatch, Candidate, AssignedCell).

\* The number of mapping rows the mapping loop has finished.
Processed == IF pc = "load" THEN 0 ELSE row - 2

\* The mapping loop is about to process the row at "row".
AtMappingRow == pc = "map" /\ row <= max_row(mapping_ws)

\* The source records whose normalized key contains, or is contained in,
\* the normalized form of the map key.
Candidates(map_key) ==
    {i \in 1..Len(source_data) :
        \/ IsSubstring(normalize(map_key), source_data[i].norm_key)
        \/ IsSubstring(source_data[i].norm_key, normalize(map_key))}

FirstCandidate(map_key) ==
    LET cs == Candidates(map_key)
    IN  CHOOSE i \in cs : \A j \in cs : i <= j

BothTruthy(r) == Truthy(r.A) /\ Truthy(r.B)

\* A cell that holds something: not None and not the empty text.
NonEmpty(v) == v.t # "none" /\ (v.t = "str" => v.s # <<>>)

\* The row names a cell of the sheet: column B parses to a row number.
NamesRow(r) == int(r.B).ok /\ int(r.B).n >= 1

\* The merged ranges of the target sheet that contain the address.
RangesWith(addr) ==
    {i \in 1..Len(target_ws.merged) : InRange(addr, target_ws.merged[i])}

\* The cell that holds the value of the address: the anchor of its merged
\* range, the address itself outside every range (ranges do not overlap).
Phys(addr) ==
    IF RangesWith(addr) = {} THEN addr
    ELSE Anchor(target_ws.merged[CHOOSE i \in RangesWith(addr) : TRUE])

\* k is x rounded to the nearest integer, a tie going to the even one,
\* for x = p / d.
IsRounded(k, p, d) ==
    /\ 2 * (k * d - p) <= d
    /\ 2 * (p - k * d) <= d
    /\ (2 * (k * d - p) = d \/ 2 * (p - k * d) = d) => k % 2 = 0

\* No assigned cell is a cell of a merged range other than its anchor; a
\* step that changes the target sheet assigns the cells of G{n} and J{n}.
C1_OnlyAnchorsAssigned(ws) ==
    \A c \in ws.assigned : \A i \in 1..Len(ws.merged) :
        InRange(c, ws.merged[i]) => c = Anchor(ws.merged[i])

C1_Step ==
    /\ C1_OnlyAnchorsAssigned(target_ws')
    /\ target_ws' # target_ws =>
          LET n == int(RowAt(mapping_ws, row).B).n
              g == <<n, ColG>>
              j == <<n, ColJ>>
              src == source_data[match']
          IN  /\ AtMappingRow
              /\ Phys(g) \in target_ws'.assigned
              /\ Phys(j) \in target_ws'.assigned
              /\ target_ws'.assigned \subseteq target_ws.assigned \cup {Phys(g), Phys(j)}
              /\ target_ws'.cells[Phys(j)] = Num(prev_value(src, factor))
              /\ Phys(g) # Phys(j) =>
                     target_ws'.cells[Phys(g)] = Num(curr_value(src, factor))

\* C1: every write of the run on the target sheet stores the value in the
\* anchor of the merged range containing the address G{r} or J{r}, in the
\* addressed cell itself outside every range, and no cell of a merged range
\* other than its anchor is ever assigned.
C1_MergedWriteLandsOnAnchor == [][C1_Step]_vars

\* C1 witness: the run has written through a merged range (the anchor G3
\* of G3:G4 assigned for the address G4) and to a cell of no range (G5).
C1_Witness ==
    /\ pc = "done"
    /\ \E k \in 1..Len(mapping_ws) : int(mapping_ws[k].B).n = 4
    /\ <<3, ColG>> \in target_ws.assigned
    /\ <<5, ColG>> \in target_ws.assigned
    /\ target_ws.cells[<<4, ColG>>] = None

\* C2 (as amended): at every point of the mapping loop, and so after a
\* complete run, filled is the number of finished mapping rows with both
\* columns truthy whose key has a candidate, and the length of missing_keys
\* is the number of finished rows with both columns truthy whose key has
\* none; a row with a falsy column A or B (empty, or zero) is in neither.
C2_CountsTruthy ==
    pc \in {"map", "done"} =>
        /\ filled = Cardinality({k \in 1..Processed :
                        BothTruthy(mapping_ws[k]) /\ Candidates(mapping_ws[k].A) # {}})
        /\ Len(missing_keys) = Cardinality({k \in 1..Processed :
                        BothTruthy(mapping_ws[k]) /\ Candidates(mapping_ws[k].A) = {}})

\* C2 as claimed: after a complete run the length of missing_keys is the
\* number of unmatched rows with both columns present, filled the number
\* of matched ones.
C2_CountsPresent ==
    pc = "done" =>
        /\ filled = Cardinality({k \in 1..Len(mapping_ws) :
                        /\ NonEmpty(mapping_ws[k].A) /\ NonEmpty(mapping_ws[k].B)
                        /\ Candidates(mapping_ws[k].A) # {}})
        /\ Len(missing_keys) = Cardinality({k \in 1..Len(mapping_ws) :
                        /\ NonEmpty(mapping_ws[k].A) /\ NonEmpty(mapping_ws[k].B)
                        /\ Candidates(mapping_ws[k].A) = {}})

\* C2 witness: a complete run with one matched row, one unmatched row.
C2_Witness ==
    /\ pc = "done"
    /\ Len(mapping_ws) = 2
    /\ filled = 1
    /\ Len(missing_keys) = 1

\* The selection made by one step of the mapping loop.
C3_Step ==
    (AtMappingRow /\ BothTruthy(RowAt(mapping_ws, row))) =>
        LET map_key == RowAt(mapping_ws, row).A
        IN  /\ Candidates(map_key) = {} =>
                  match' = 0 /\ Len(missing_keys') = Len(missing_keys) + 1
            /\ Candidates(map_key) # {} =>
                  /\ match' \in Candidates(map_key)
                  /\ \A j \in Candidates(map_key) : match' <= j
                  /\ missing_keys' = missing_keys

\* C3: for a mapping row that is not skipped the record selected is the
\* first one, in load order, whose normalized key contains the normalized
\* map key or is contained in it; the row is unmatched exactly when there
\* is no such record.
C3_FirstContainmentMatch == [][C3_Step]_vars

\* C3 witness: two records are candidates for the last finished row, the
\* first is selected, and its key is shorter than the map key (the source
\* key is the contained one).
C3_Witness ==
    /\ pc = "map"
    /\ Processed >= 1
    /\ BothTruthy(mapping_ws[Processed])
    /\ Candidates(mapping_ws[Processed].A) = {1, 2}
    /\ match = 1
    /\ Len(source_data[1].norm_key) < Len(normalize(mapping_ws[Processed].A))

\* The effect of a step on a row without candidate.
C4_Step ==
    (/\ AtMappingRow
     /\ BothTruthy(RowAt(mapping_ws, row))
     /\ Candidates(RowAt(mapping_ws, row).A) = {}) =>
        /\ missing_keys' = Append(missing_keys, RowAt(mapping_ws, row).A)
        /\ filled' = filled
        /\ target_ws' = target_ws
        /\ output' = output
        /\ row' = row + 1
        /\ pc' = "map"

\* C4: a mapping row that is not skipped and has no candidate appends the
\* original map key to missing_keys and changes nothing else: filled and
\* the target sheet stay, and the loop goes on with the next row.
C4_NoMatchOnlyRecordsKey == [][C4_Step]_vars

\* C4 witness: "Globex" was recorded as written in the sheet, nothing was
\* written for it, and the row after it was processed and filled.
C4_Witness ==
    /\ pc = "done"
    /\ mapping_ws = <<MapGlobex, MapAcme>>
    /\ missing_keys = <<MapGlobex.A>>
    /\ filled = 1
    /\ \A r \in 1..4, c \in FirstCol..ColJ : target_ws.cells[<<r, c>>] = None

\* The effect of a step on a matched row that names a row number.
C5_Step ==
    (/\ AtMappingRow
     /\ BothTruthy(RowAt(mapping_ws, row))
     /\ Candidates(RowAt(mapping_ws, row).A) # {}
     /\ NamesRow(RowAt(mapping_ws, row))) =>
        LET n == int(RowAt(mapping_ws, row).B).n
            m == source_data[FirstCandidate(RowAt(mapping_ws, row).A)]
            gv == target_ws'.cells[Phys(<<n, ColG>>)]
            jv == target_ws'.cells[Phys(<<n, ColJ>>)]
        IN  /\ filled' = filled + 1
            /\ jv.t = "num" /\ jv.n % Scale = 0
            /\ IsRounded(jv.n \div Scale, m.previous * factor, Scale * Scale)
            /\ Phys(<<n, ColG>>) # Phys(<<n, ColJ>>) =>
                  /\ gv.t = "num" /\ gv.n % Scale = 0
                  /\ IsRounded(gv.n \div Scale, m.current * factor, Scale * Scale)

\* C5: a mapping row matched to the record m, whose column B parses to the
\* row number n, stores round(m.current * factor) for the address G{n} and
\* round(m.previous * factor) for J{n}, each in the cell the merged ranges
\* assign to the address, and adds exactly 1 to filled.
C5_MatchWritesScaledValues == [][C5_Step]_vars

\* C5 witness: source ("Acme Corp", 100, 200), mapping ("ACME CORP.", 5),
\* factor 2: G5 = 200, J5 = 400, filled = 1, missing_keys empty.
C5_Witness ==
    /\ pc = "done"
    /\ source_ws = <<SrcAcme>>
    /\ mapping_ws = <<MapAcme>>
    /\ factor = 2 * Scale
    /\ target_ws.cells[<<5, ColG>>] = Num(200)
    /\ target_ws.cells[<<5, ColJ>>] = Num(400)
    /\ filled = 1
    /\ missing_keys = <<>>

\* C6: no content of a source or mapping cell makes the run fail: the run
\* never ends in the "Unexpected error" outcome.
C6_NoHardFailure == pc # "error"

\* The records of the rows of ws whose column B is kept, in row order.
RecordsOf(rows) ==
    [i \in 1..Len(rows) |-> SourceRecord(rows[i].B, rows[i].D, rows[i].F)]

\* The source rows the load loop has finished.
Loaded == IF pc = "load" THEN SubSeq(source_ws, 1, row - 2) ELSE source_ws

\* C7 (as amended): the source index holds one record for each loaded row
\* whose column B is truthy (not empty and not zero) and none for the other
\* rows, in ascending row order, rows with equal normalized keys all kept;
\* it stays so while the mapping rows are processed.
C7_IndexOfTruthyRows ==
    source_data = RecordsOf(SelectSeq(Loaded, LAMBDA r : Truthy(r.B)))

\* C7 as claimed: one record for each row whose column B is not empty.
C7_IndexOfNonEmptyRows ==
    source_data = RecordsOf(SelectSeq(Loaded, LAMBDA r : NonEmpty(r.B)))

\* C7 witness: after the load, a sheet with a row of empty column B and a
\* keyed row gave one record; the mapping loop has run over it.
C7_Witness ==
    /\ pc = "done"
    /\ Len(source_ws) = 2
    /\ source_ws[1].B = None
    /\ Len(source_data) = 1
    /\ source_data[1].raw_key = source_ws[2].B.s
    /\ filled >= 1

\* The writes of the finished mapping rows, in order: for each matched row
\* naming a row number, the cell and value of its G write, then of its J
\* write.
RECURSIVE WritesUpTo(_)
WritesUpTo(k) ==
    IF k = 0 THEN <<>>
    ELSE LET r == mapping_ws[k]
             n == int(r.B).n
             m == source_data[FirstCandidate(r.A)]
         IN  IF BothTruthy(r) /\ Candidates(r.A) # {} /\ NamesRow(r)
             THEN WritesUpTo(k - 1) \o
                  <<[cell |-> Phys(<<n, ColG>>), value |-> Num(curr_value(m, factor))],
                    [cell |-> Phys(<<n, ColJ>>), value |-> Num(prev_value(m, factor))]>>
             ELSE WritesUpTo(k - 1)

\* The value of the last write of ws that landed on the cell c, None (the
\* value of the untouched sheet) without one.
LastWritten(ws, c) ==
    LET hits == {i \in 1..Len(ws) : ws[i].cell = c}
    IN  IF hits = {} THEN None
        ELSE ws[CHOOSE i \in hits : \A j \in hits : j <= i].value

\* C8 (as amended): two addresses of one merged range are written to the
\* same cell; writing a value twice to an address leaves the sheet as one
\* write does and a second value replaces the first; every cell holds the
\* value of the last write that landed on it, so the cells of G{r} and
\* J{r} hold the values of the last matched row naming r unless a later
\* write to another address landed on the same cell.
C8_LastWriteWins ==
    /\ \A i \in 1..Len(target_ws.merged) :
           LET inside == {a \in Coords : InRange(a, target_ws.merged[i])}
           IN  \A a, b \in inside :
                   /\ AssignedCell(target_ws.merged, a) = AssignedCell(target_ws.merged, b)
                   /\ write_to_cell(target_ws, a, Num(1)) = write_to_cell(target_ws, b, Num(1))
    /\ \A a \in Coords :
           LET once == write_to_cell(target_ws, a, Num(1))
           IN  /\ write_to_cell(once, a, Num(1)) = once
               /\ write_to_cell(once, a, Num(2)) = write_to_cell(target_ws, a, Num(2))
    /\ pc \in {"map", "done"} =>
           LET writes == WritesUpTo(Processed)
           IN  target_ws.cells = [c \in Coords |-> LastWritten(writes, c)]

\* The finished matched mapping rows that name the target row r.
RowsNaming(r) ==
    {k \in 1..Processed :
        /\ BothTruthy(mapping_ws[k])
        /\ Candidates(mapping_ws[k].A) # {}
        /\ NamesRow(mapping_ws[k])
        /\ int(mapping_ws[k].B).n = r}

\* C8 as claimed: when several matched rows name the same target row, the
\* final values of its G and J cells are those of the last such row.
C8_LastRowOfTargetWins ==
    pc = "done" =>
        \A r \in 1..MaxTargetRow :
            Cardinality(RowsNaming(r)) >= 2 =>
                LET k == CHOOSE x \in RowsNaming(r) : \A y \in RowsNaming(r) : y <= x
                    m == source_data[FirstCandidate(mapping_ws[k].A)]
                IN  /\ target_ws.cells[Phys(<<r, ColG>>)] = Num(curr_value(m, factor))
                    /\ target_ws.cells[Phys(<<r, ColJ>>)] = Num(prev_value(m, factor))

\* C8 witness: two matched rows named row 4 with different values, and the
\* cells of G4 and J4 (the anchors G3 and I4) hold those of the later row.
C8_Witness ==
    /\ pc = "done"
    /\ Cardinality(RowsNaming(4)) = 2
    /\ \E k1, k2 \in RowsNaming(4) :
           /\ k1 < k2
           /\ FirstCandidate(mapping_ws[k1].A) # FirstCandidate(mapping_ws[k2].A)
           /\ target_ws.cells[<<3, ColG>>]
                  = Num(curr_value(source_data[FirstCandidate(mapping_ws[k2].A)], factor))
           /\ target_ws.cells[<<3, ColG>>]
                  # Num(curr_value(source_data[FirstCandidate(mapping_ws[k1].A)], factor))

\* What one step may change in the three documents.
C9_Step ==
    /\ source_ws' = source_ws
    /\ mapping_ws' = mapping_ws
    /\ target_ws'.merged = target_ws.merged
    /\ \A c \in Coords :
           target_ws'.cells[c] # target_ws.cells[c] =>
               /\ AtMappingRow
               /\ BothTruthy(RowAt(mapping_ws, row))
               /\ Candidates(RowAt(mapping_ws, row).A) # {}
               /\ LET n == int(RowAt(mapping_ws, row).B).n
                  IN  c \in {<<n, ColG>>, <<n, ColJ>>}
                            \cup {Anchor(target_ws.merged[i]) :
                                    i \in RangesWith(<<n, ColG>>) \cup RangesWith(<<n, ColJ>>)}
    /\ DOMAIN target_ws'.cells = DOMAIN target_ws.cells

\* C9: a step of the run changes no cell of the target sheet other than,
\* for a matched mapping row naming the row n, the cells G{n} and J{n} or
\* the anchors of the merged ranges containing them; the merged ranges and
\* the source and mapping sheets never change.
C9_OnlyTargetCellsChange == [][C9_Step]_vars

\* C9 witness: rows 5 and 4 were filled: G5, J5 and the anchors G3 and I4
\* hold values, every other cell is as it was.
C9_Witness ==
    /\ pc = "done"
    /\ filled = 2
    /\ \A c \in Coords :
           target_ws.cells[c] # None <=>
               c \in {<<5, ColG>>, <<5, ColJ>>, <<3, ColG>>, <<4, ColJ - 1>>}

\* The selection of one step where a normalized key is empty.
C10_Step ==
    (AtMappingRow /\ BothTruthy(RowAt(mapping_ws, row))) =>
        LET nk == normalize(RowAt(mapping_ws, row).A)
        IN  /\ (nk = <<>> /\ source_data # <<>>) => match' = 1
            /\ \A i \in 1..Len(source_data) :
                   source_data[i].norm_key = <<>> => match' \in 1..i
            /\ missing_keys' # missing_keys =>
                   /\ \A i \in 1..Len(source_data) : source_data[i].norm_key # <<>>
                   /\ nk # <<>> \/ source_data = <<>>

\* C10: a row that is not skipped and whose normalized key is empty matches
\* the first record of a non-empty index; a record whose normalized key is
\* empty matches every key that reaches it; so a key is recorded as missing
\* only if no record has an empty normalized key and the key's own
\* normalized form is not empty or the index is empty.
C10_EmptyKeyMatches == [][C10_Step]_vars

\* C10 witness: "#42" (normalized to the empty text) took the first record,
\* and "Globex" took the record of "12-3", whose normalized key is empty.
C10_Witness ==
    /\ pc = "done"
    /\ mapping_ws = <<MapPunct, MapGlobex>>
    /\ Len(source_data) = 2
    /\ source_data[1].norm_key # <<>>
    /\ source_data[2].norm_key = <<>>
    /\ match = 2
    /\ filled = 2
    /\ missing_keys = <<>>

====
